---- MODULE Spec2Model ----
(***************************************************************************)
(* A model of IteratedPrisonersDilemmaSim.py: the strategy decisions, the  *)
(* payoff table of dilemma, the bounded pairwise match and the single-     *)
(* elimination bracket of set_up_matches.                                  *)
(*                                                                         *)
(* Three specifications share the variables:                               *)
(*   Spec         one call of set_up_matches on a population of agents     *)
(*   SpecMatch    one call of match on two agents                          *)
(*   SpecDilemma  one call of dilemma on two agents with any histories     *)
(* Moves are booleans as in the source: TRUE cooperates, FALSE defects.    *)
(* Python's None is the empty sequence <<>> and a present value v is <<v>>.*)
(***************************************************************************)
EXTENDS Integers, Sequences, FiniteSets

VARIABLES
    agents,           \* the Prisoner objects, by identity 1..N
    prisoners,        \* set_up_matches: the caller's list (identities)
    current_winners,  \* set_up_matches: local list
    final_prisoners,  \* set_up_matches: local list, the value returned
    pc,               \* position in the running call
    i,                \* set_up_matches: index of the for loop (0-based)
    prisoner1,        \* match / dilemma: first argument (identity, 0 = none)
    prisoner2,        \* match / dilemma: second argument (identity, 0 = none)
    round_num,        \* match: local round counter
    elim_num,         \* argument: elimination threshold
    round_max,        \* argument: maximum number of rounds
    isuser,           \* dilemma: argument
    userchoice,       \* dilemma: argument (<<>> is None)
    match_ret,        \* match: returned pair <<winner, loser>>, <<>> before return
    err,              \* the exception the call ended with, "none" if none
    bracket_round,    \* history: how many bracket rounds have begun
    lost,             \* history: per agent, the bracket rounds of the
                      \* matches that returned it as loser
    draws,            \* the values the random source has returned, one pair
                      \* <<d1, d2>> per turn (kept only by the seeded match)
    first_run         \* the agents as an earlier run of the same match left
                      \* them (<<>> is None)

vars == <<agents, prisoners, current_winners, final_prisoners, pc, i, prisoner1,
          prisoner2, round_num, elim_num, round_max, isuser, userchoice,
          match_ret, err, bracket_round, lost, draws, first_run>>

(***************************************************************************)
(* Bounds of the model.                                                    *)
(***************************************************************************)
MaxAgents == 3      \* Spec: populations of 0..MaxAgents agents
TournRounds == 1    \* Spec: round_max ranges over 0..TournRounds
TournElimDepth == 1 \* Spec: elim_num ranges over -TournElimDepth..0
MaxRounds == 2      \* SpecMatch: round_max ranges over -1..MaxRounds
ElimDepth == 2      \* SpecMatch: elim_num ranges over -ElimDepth..1
MaxHist == 3        \* SpecDilemma: histories of length 0..MaxHist

(***************************************************************************)
(* Program constants.                                                      *)
(***************************************************************************)
both_rat == 0
neither_rat == 5
ratter == 3
rattee == -1

NICE == 1
GREEDY == 2
TITFORTAT == 3
NICEUNTIL == 4
AVESTRAT == 5
RANSTRAT == 6
RANDOM == 7
USER == 8

Strategy == {NICE, GREEDY, TITFORTAT, NICEUNTIL, AVESTRAT, RANSTRAT, RANDOM, USER}

\* the strategies random_prisoner and main build agents of
types == {NICE, GREEDY, RANDOM, TITFORTAT, RANSTRAT, AVESTRAT, NICEUNTIL}

None == <<>>
Some(v) == <<v>>
\* Python truthiness of None / True / False
Truthy(x) == x # None /\ x[1]

(***************************************************************************)
(* class Prisoner                                                          *)
(***************************************************************************)
Prisoner(strat) ==
    [strategy |-> strat, turns |-> <<>>, elim_round |-> 0,
     final_score |-> 0, elim |-> FALSE]

add_turns(p, move) == [p EXCEPT !.turns = Append(@, move)]

\* mutant of reset_turns: the history of the earlier match is kept
reset_turns_kept(p) == p

reset_turns(p) == [p EXCEPT !.turns = <<>>]
add_to_score(p, num) == [p EXCEPT !.final_score = @ + num]

\* mutant of reset_score: the score is carried into the next match
reset_score_kept(p) == p

reset_score(p) == [p EXCEPT !.final_score = 0]
set_elim_round(p, num) == [p EXCEPT !.elim_round = num, !.elim = TRUE]

\* mutant of eliminated: the loser is marked through set_elim_round
eliminated_with_round(p) == [p EXCEPT !.elim_round = 1, !.elim = TRUE]

\* mutant of eliminated: the flag is cleared instead of set
eliminated_cleared(p) == [p EXCEPT !.elim = FALSE]

eliminated(p) == [p EXCEPT !.elim = TRUE]

(***************************************************************************)
(* The strategies.  last_move is None, Some(TRUE) or Some(FALSE).          *)
(***************************************************************************)
Last(s) == s[Len(s)]

\* mutant of nice_until_not: an absent own last move counts as cooperation
nice_until_not_absent_mirrors(last_move, turns) ==
    IF Len(turns) = 0 THEN TRUE
    ELSE IF last_move # Some(FALSE)
         THEN (IF Last(turns) THEN TRUE ELSE FALSE)
         ELSE IF Len(turns) = 1 THEN FALSE
              ELSE (IF Last(turns) /\ turns[Len(turns) - 1] THEN TRUE ELSE FALSE)

nice_until_not(last_move, turns) ==
    IF Len(turns) = 0 THEN TRUE
    ELSE IF Truthy(last_move)
         THEN (IF Last(turns) THEN TRUE ELSE FALSE)
         ELSE IF Len(turns) = 1 THEN FALSE
              ELSE (IF Last(turns) /\ turns[Len(turns) - 1] THEN TRUE ELSE FALSE)

RECURSIVE Tally(_, _)
\* the loop of average_strategy over turns[0..k-1]
Tally(turns, k) ==
    IF k = 0 THEN 0
    ELSE Tally(turns, k - 1) + (IF turns[k] THEN 1 ELSE -1)

average_strategy(turns) ==
    IF Len(turns) = 0 THEN TRUE
    ELSE LET ave == Tally(turns, Len(turns))
         IN  IF ave >= 0 THEN TRUE ELSE FALSE

\* What the random source can return for one decision: randint(0, len-1) for
\* RANSTRAT on a non-empty history, getrandbits(1) for RANDOM; the other
\* branches draw nothing (0 stands for "no draw").
Draws(strat, turns) ==
    IF strat = RANSTRAT /\ Len(turns) > 0 THEN 0 .. (Len(turns) - 1)
    ELSE IF strat = RANDOM THEN {0, 1}
    ELSE {0}

\* strategy_to_payoff, with the value drawn from the random source as `draw`
strategy_to_payoff(strat, turns, our_turns, draw) ==
    LET last_move == IF Len(our_turns) = 0 THEN None ELSE Some(Last(our_turns))
    IN  IF strat = 4 THEN nice_until_not(last_move, turns)
        ELSE IF strat = 5 THEN average_strategy(turns)
        ELSE IF strat = 6 THEN (IF Len(turns) = 0 THEN TRUE ELSE turns[draw + 1])
        ELSE IF strat = 7 THEN draw # 0
        ELSE IF strat = 3 THEN (IF Len(turns) = 0 THEN TRUE ELSE Last(turns))
        ELSE IF strat = 1 THEN TRUE
        ELSE FALSE

(***************************************************************************)
(* dilemma                                                                 *)
(***************************************************************************)
\* mutant of payoff: the mixed case pays the cooperator, not the defector
payoff_mixed_swapped(prisoner1_choice, prisoner2_choice) ==
    IF prisoner1_choice /\ prisoner2_choice THEN <<neither_rat, neither_rat>>
    ELSE IF prisoner1_choice THEN <<ratter, rattee>>
    ELSE IF prisoner2_choice THEN <<rattee, ratter>>
    ELSE <<both_rat, both_rat>>

\* the score deltas <<for prisoner1, for prisoner2>> of one turn
payoff(prisoner1_choice, prisoner2_choice) ==
    IF prisoner1_choice /\ prisoner2_choice THEN <<neither_rat, neither_rat>>
    ELSE IF prisoner1_choice THEN <<rattee, ratter>>
    ELSE IF prisoner2_choice THEN <<ratter, rattee>>
    ELSE <<both_rat, both_rat>>

\* the agents after dilemma(p1, p2, isu, uch), d1 and d2 being the draws of
\* the two decisions
dilemma(ags, p1, p2, isu, uch, d1, d2) ==
    LET prisoner1_choice ==
            strategy_to_payoff(ags[p1].strategy, ags[p2].turns, ags[p1].turns, d1)
        prisoner2_choice ==
            IF ~isu
            THEN strategy_to_payoff(ags[p2].strategy, ags[p1].turns, ags[p2].turns, d2)
            ELSE uch[1]
        delta == payoff(prisoner1_choice, prisoner2_choice)
    IN  [ags EXCEPT
            ![p1] = add_to_score(add_turns(@, prisoner1_choice), delta[1]),
            ![p2] = add_to_score(add_turns(@, prisoner2_choice), delta[2])]

(***************************************************************************)
(* dilemma called on its own (as versus_user calls it)                     *)
(***************************************************************************)
Dilemma ==
    /\ pc = "dilemma"
    /\ \E d1 \in Draws(agents[prisoner1].strategy, agents[prisoner2].turns),
          d2 \in Draws(agents[prisoner2].strategy, agents[prisoner1].turns) :
          agents' = dilemma(agents, prisoner1, prisoner2, isuser, userchoice, d1, d2)
    /\ pc' = "dilemma_done"
    /\ UNCHANGED <<prisoners, current_winners, final_prisoners, i, prisoner1,
                   prisoner2, round_num, elim_num, round_max, isuser,
                   userchoice, match_ret, err, bracket_round, lost>>
    /\ UNCHANGED <<draws, first_run>>

(***************************************************************************)
(* match                                                                   *)
(***************************************************************************)
\* mutant of match_loop_guard: a score equal to the threshold plays on
match_loop_guard_inclusive(rn, rmax, score1, score2, en) ==
    rn <= rmax /\ score1 >= en /\ score2 >= en

\* mutant of match_loop_guard: the last round is not played
match_loop_guard_short(rn, rmax, score1, score2, en) ==
    rn < rmax /\ score1 > en /\ score2 > en

\* the while condition
match_loop_guard(rn, rmax, score1, score2, en) ==
    rn <= rmax /\ score1 > en /\ score2 > en

\* mutant of match_p1_eliminated: a tie eliminates prisoner2
match_p1_eliminated_strict(score1, score2) == score1 < score2

\* mutant of match_p1_eliminated: the higher score is eliminated
match_p1_eliminated_inverted(score1, score2) == score1 >= score2

\* the test deciding that prisoner1 is the one eliminated
match_p1_eliminated(score1, score2) == score1 <= score2

\* reset the prisoners, set the round number
MatchReset ==
    /\ pc = "match_reset"
    /\ agents' = [agents EXCEPT
                    ![prisoner1] = reset_turns(reset_score(@)),
                    ![prisoner2] = reset_turns(reset_score(@))]
    /\ round_num' = 1
    /\ pc' = "match_loop"
    /\ UNCHANGED <<prisoners, current_winners, final_prisoners, i, prisoner1,
                   prisoner2, elim_num, round_max, isuser, userchoice,
                   match_ret, err, bracket_round, lost>>
    /\ UNCHANGED <<draws, first_run>>

\* one iteration of the while loop
MatchTurn ==
    /\ pc = "match_loop"
    /\ match_loop_guard(round_num, round_max, agents[prisoner1].final_score,
                        agents[prisoner2].final_score, elim_num)
    /\ \E d1 \in Draws(agents[prisoner1].strategy, agents[prisoner2].turns),
          d2 \in Draws(agents[prisoner2].strategy, agents[prisoner1].turns) :
          agents' = dilemma(agents, prisoner1, prisoner2, FALSE, None, d1, d2)
    /\ round_num' = round_num + 1
    /\ UNCHANGED <<prisoners, current_winners, final_prisoners, pc, i, prisoner1,
                   prisoner2, elim_num, round_max, isuser, userchoice,
                   match_ret, err, bracket_round, lost>>
    /\ UNCHANGED <<draws, first_run>>

\* What a random source that has returned the values `tape` returns for the
\* decision of player `who` in turn rn when seeded as before: the value it
\* returned then, if this decision asks for a value of that range; any value
\* of the range asked for otherwise.
SeededDraws(tape, rn, who, strat, turns) ==
    IF rn <= Len(tape) /\ tape[rn][who] \in Draws(strat, turns)
    THEN {tape[rn][who]}
    ELSE Draws(strat, turns)

\* one iteration of the while loop, the random source being seeded: the
\* first run records what it draws, a later run draws the same values
MatchTurnSeeded ==
    /\ pc = "match_loop"
    /\ match_loop_guard(round_num, round_max, agents[prisoner1].final_score,
                        agents[prisoner2].final_score, elim_num)
    /\ \E d1 \in SeededDraws(draws, round_num, 1, agents[prisoner1].strategy,
                              agents[prisoner2].turns),
          d2 \in SeededDraws(draws, round_num, 2, agents[prisoner2].strategy,
                              agents[prisoner1].turns) :
          /\ agents' = dilemma(agents, prisoner1, prisoner2, FALSE, None, d1, d2)
          /\ draws' = IF round_num <= Len(draws) THEN draws
                      ELSE Append(draws, <<d1, d2>>)
    /\ round_num' = round_num + 1
    /\ UNCHANGED <<prisoners, current_winners, final_prisoners, pc, i, prisoner1,
                   prisoner2, elim_num, round_max, isuser, userchoice,
                   match_ret, err, bracket_round, lost, first_run>>

\* match has returned and is called again with the same arguments
Rematch ==
    /\ pc = "match_done"
    /\ first_run = None
    /\ first_run' = Some(agents)
    /\ match_ret' = <<>>
    /\ pc' = "match_reset"
    /\ UNCHANGED <<agents, prisoners, current_winners, final_prisoners, i,
                   prisoner1, prisoner2, round_num, elim_num, round_max, isuser,
                   userchoice, err, bracket_round, lost, draws>>

\* the loop has ended: eliminate one of the two and return <<winner, loser>>
MatchDecide ==
    /\ pc = "match_loop"
    /\ ~match_loop_guard(round_num, round_max, agents[prisoner1].final_score,
                         agents[prisoner2].final_score, elim_num)
    /\ LET loser == IF match_p1_eliminated(agents[prisoner1].final_score,
                                           agents[prisoner2].final_score)
                    THEN prisoner1 ELSE prisoner2
           winner == IF loser = prisoner1 THEN prisoner2 ELSE prisoner1
       IN  /\ agents' = [agents EXCEPT ![loser] = eliminated(@)]
           /\ match_ret' = <<winner, loser>>
           /\ lost' = [lost EXCEPT ![loser] = Append(@, bracket_round)]
    /\ pc' = "match_done"
    /\ UNCHANGED <<prisoners, current_winners, final_prisoners, i, prisoner1,
                   prisoner2, round_num, elim_num, round_max, isuser,
                   userchoice, err, bracket_round>>
    /\ UNCHANGED <<draws, first_run>>

(***************************************************************************)
(* set_up_matches                                                          *)
(***************************************************************************)
\* the outcomes of random.shuffle on a list of distinct identities
Shuffles(s) ==
    LET n == Len(s)
        Bij == {f \in [1..n -> 1..n] : \A a, b \in 1..n : a # b => f[a] # f[b]}
    IN  {[k \in 1..n |-> s[f[k]]] : f \in Bij}

\* mutant of bye_index: the agent left of the middle is given the bye
bye_index_left(n) == n \div 2 - 1

\* the 0-based index of the agent given the bye
bye_index(n) == n \div 2

\* mutant of opponent_index: the opponent is taken one place too far left
opponent_index_off_by_one(n, k) == n - k - 2

\* the 0-based index of the opponent of the agent at index k
opponent_index(n, k) == n - k - 1

\* final_prisoners = [], current_winners = copy of prisoners
SetUp ==
    /\ pc = "setup"
    /\ final_prisoners' = <<>>
    /\ current_winners' = prisoners
    /\ pc' = "while"
    /\ UNCHANGED <<agents, prisoners, i, prisoner1, prisoner2, round_num,
                   elim_num, round_max, isuser, userchoice, match_ret, err, bracket_round, lost>>
    /\ UNCHANGED <<draws, first_run>>

\* a bracket round begins: clear the winners, shuffle, take the bye
RoundStart ==
    /\ pc = "while"
    /\ Len(current_winners) > 1
    /\ \E shuffled \in Shuffles(prisoners) :
          /\ prisoners' = shuffled
          /\ current_winners' =
                IF Len(shuffled) % 2 = 1
                THEN <<shuffled[bye_index(Len(shuffled)) + 1]>>
                ELSE <<>>
    /\ i' = 0
    /\ bracket_round' = bracket_round + 1
    /\ pc' = "for"
    /\ UNCHANGED <<agents, final_prisoners, prisoner1, prisoner2, round_num,
                   elim_num, round_max, isuser, userchoice, match_ret, err, lost>>
    /\ UNCHANGED <<draws, first_run>>

\* the for loop calls match on the agents at indices i and len-i-1
ForMatch ==
    /\ pc = "for"
    /\ i < Len(prisoners) \div 2
    /\ prisoner1' = prisoners[i + 1]
    /\ prisoner2' = prisoners[opponent_index(Len(prisoners), i) + 1]
    /\ match_ret' = <<>>
    /\ pc' = "match_reset"
    /\ UNCHANGED <<agents, prisoners, current_winners, final_prisoners, i,
                   round_num, elim_num, round_max, isuser, userchoice, err, lost,
                   bracket_round>>
    /\ UNCHANGED <<draws, first_run>>

\* match has returned: the winner advances, the loser is recorded
Collect ==
    /\ pc = "match_done"
    /\ current_winners' = Append(current_winners, match_ret[1])
    /\ final_prisoners' = Append(final_prisoners, match_ret[2])
    /\ i' = i + 1
    /\ pc' = "for"
    /\ UNCHANGED <<agents, prisoners, prisoner1, prisoner2, round_num, elim_num,
                   round_max, isuser, userchoice, match_ret, err, bracket_round, lost>>
    /\ UNCHANGED <<draws, first_run>>

\* mutant of ForEnd: the caller's list is extended without being cleared
ForEnd_without_clear ==
    /\ pc = "for"
    /\ ~(i < Len(prisoners) \div 2)
    /\ prisoners' = prisoners \o current_winners
    /\ pc' = "while"
    /\ UNCHANGED <<agents, current_winners, final_prisoners, i, prisoner1,
                   prisoner2, round_num, elim_num, round_max, isuser,
                   userchoice, match_ret, err, bracket_round, lost>>
    /\ UNCHANGED <<draws, first_run>>

\* the for loop is over: the caller's list becomes the winners
ForEnd ==
    /\ pc = "for"
    /\ ~(i < Len(prisoners) \div 2)
    /\ prisoners' = current_winners
    /\ pc' = "while"
    /\ UNCHANGED <<agents, current_winners, final_prisoners, i, prisoner1,
                   prisoner2, round_num, elim_num, round_max, isuser,
                   userchoice, match_ret, err, bracket_round, lost>>
    /\ UNCHANGED <<draws, first_run>>

\* the while loop is over: append the overall winner and return
Finish ==
    /\ pc = "while"
    /\ ~(Len(current_winners) > 1)
    /\ IF Len(current_winners) = 0
       THEN /\ err' = "IndexError"
            /\ pc' = "raised"
            /\ UNCHANGED final_prisoners
       ELSE /\ final_prisoners' = Append(final_prisoners, current_winners[1])
            /\ pc' = "returned"
            /\ UNCHANGED err
    /\ UNCHANGED <<agents, prisoners, current_winners, i, prisoner1, prisoner2,
                   round_num, elim_num, round_max, isuser, userchoice,
                   match_ret, lost,
                   bracket_round>>
    /\ UNCHANGED <<draws, first_run>>

(***************************************************************************)
(* The arguments the calls are made with.                                  *)
(***************************************************************************)
Thresholds == (-ElimDepth) .. 1
RoundMaxes == (-1) .. MaxRounds
TournThresholds == (-TournElimDepth) .. 0
TournRoundMaxes == 0 .. TournRounds
Histories == UNION {[1..n -> BOOLEAN] : n \in 0..MaxHist}

\* Populations of freshly constructed agents, grouped by strategy as main
\* builds them; the shuffle at the head of every bracket round makes the
\* order of the input immaterial.
Populations ==
    LET Seqs == UNION {[1..n -> types] : n \in 0..MaxAgents}
    IN  {[k \in DOMAIN s |-> Prisoner(s[k])] :
            s \in {t \in Seqs : \A a, b \in DOMAIN t : a < b => t[a] <= t[b]}}

\* What an agent passed to match may carry from an earlier match.
Carried(strat) ==
    { Prisoner(strat),
      [Prisoner(strat) EXCEPT !.turns = <<TRUE>>, !.final_score = -1, !.elim = TRUE],
      [Prisoner(strat) EXCEPT !.turns = <<FALSE>>, !.final_score = 3] }

NoCall ==
    /\ i = 0 /\ round_num = 0 /\ bracket_round = 0
    /\ match_ret = <<>> /\ err = "none"
    /\ draws = <<>> /\ first_run = <<>>

\* set_up_matches(prisoners, elim_num, round_max)
Init ==
    /\ agents \in Populations
    /\ prisoners = [k \in DOMAIN agents |-> k]
    /\ current_winners = <<>> /\ final_prisoners = <<>>
    /\ pc = "setup"
    /\ prisoner1 = 0 /\ prisoner2 = 0
    /\ elim_num \in TournThresholds /\ round_max \in TournRoundMaxes
    /\ isuser = FALSE /\ userchoice = None
    /\ lost = [k \in DOMAIN agents |-> <<>>]
    /\ NoCall

Next ==
    \/ SetUp \/ RoundStart \/ ForMatch \/ MatchReset \/ MatchTurn
    \/ MatchDecide \/ Collect \/ ForEnd \/ Finish

Spec == Init /\ [][Next]_vars

\* match(prisoner1, prisoner2, elim_num, round_max)
InitMatch ==
    /\ \E s1, s2 \in Strategy :
          \E a1 \in Carried(s1), a2 \in Carried(s2) : agents = <<a1, a2>>
    /\ prisoners = <<>> /\ current_winners = <<>> /\ final_prisoners = <<>>
    /\ pc = "match_reset"
    /\ prisoner1 = 1 /\ prisoner2 = 2
    /\ elim_num \in Thresholds /\ round_max \in RoundMaxes
    /\ isuser = FALSE /\ userchoice = None
    /\ lost = << <<>>, <<>> >>
    /\ NoCall

NextMatch == MatchReset \/ MatchTurn \/ MatchDecide

SpecMatch == InitMatch /\ [][NextMatch]_vars

\* match(prisoner1, prisoner2, elim_num, round_max) called twice in a row on
\* the same two agents, the random source seeded alike before each call
NextRematch == MatchReset \/ MatchTurnSeeded \/ MatchDecide \/ Rematch

SpecRematch == InitMatch /\ [][NextRematch]_vars

\* dilemma(prisoner1, prisoner2, isuser, userchoice): match passes
\* (False, None), versus_user passes (True, the user's move)
InitDilemma ==
    /\ \E s1, s2 \in Strategy, h1, h2 \in Histories :
          agents = <<[Prisoner(s1) EXCEPT !.turns = h1],
                     [Prisoner(s2) EXCEPT !.turns = h2]>>
    /\ prisoners = <<>> /\ current_winners = <<>> /\ final_prisoners = <<>>
    /\ pc = "dilemma"
    /\ prisoner1 = 1 /\ prisoner2 = 2
    /\ elim_num = 0 /\ round_max = 0
    /\ \/ isuser = FALSE /\ userchoice = None
       \/ isuser = TRUE /\ userchoice \in {Some(TRUE), Some(FALSE)}
    /\ lost = << <<>>, <<>> >>
    /\ NoCall

NextDilemma == Dilemma

SpecDilemma == InitDilemma /\ [][NextDilemma]_vars

(***************************************************************************)
(* The claims.                                                             *)
(***************************************************************************)

\* C7: the payoff dilemma applies in a turn is the fixed table: both
\* cooperate (+5,+5), both defect (0,0), exactly one defects: defector +3,
\* cooperator -1.  The table is symmetric (the deltas of (a,b) are those of
\* (b,a) swapped), its totals are 10, 0 and 2, and in the mixed case the
\* defector gets strictly more.  Checked on every Dilemma step against the
\* moves it appended and the scores it changed.
C7_PayoffTable ==
    /\ [](\A a, b \in BOOLEAN :
            /\ payoff(a, b) = <<payoff(b, a)[2], payoff(b, a)[1]>>
            /\ payoff(a, b)[1] + payoff(a, b)[2] =
                  (IF a /\ b THEN 10 ELSE IF ~a /\ ~b THEN 0 ELSE 2)
            /\ (a /\ ~b) => payoff(a, b)[2] > payoff(a, b)[1]
            /\ (~a /\ b) => payoff(a, b)[1] > payoff(a, b)[2])
    /\ [][(pc = "dilemma" /\ pc' = "dilemma_done") =>
            LET a == Last(agents'[prisoner1].turns)
                b == Last(agents'[prisoner2].turns)
                da == agents'[prisoner1].final_score - agents[prisoner1].final_score
                db == agents'[prisoner2].final_score - agents[prisoner2].final_score
            IN  /\ Len(agents'[prisoner1].turns) = Len(agents[prisoner1].turns) + 1
                /\ Len(agents'[prisoner2].turns) = Len(agents[prisoner2].turns) + 1
                /\ (a /\ b) => (da = 5 /\ db = 5)
                /\ (~a /\ ~b) => (da = 0 /\ db = 0)
                /\ (a /\ ~b) => (da = -1 /\ db = 3)
                /\ (~a /\ b) => (da = 3 /\ db = -1)]_vars

\* C7 witness: a turn in which prisoner1 alone defected has been applied
C7_Witness ==
    /\ pc = "dilemma_done"
    /\ ~Last(agents[prisoner1].turns) /\ Last(agents[prisoner2].turns)
    /\ agents[prisoner1].final_score = 3 /\ agents[prisoner2].final_score = -1

\* C10 (the claim as stated): a decision asked of the engine for a USER agent
\* (prisoner1 of dilemma always, prisoner2 unless isuser) ends in an error
\* (UnsupportedStrategyForAutoDecision) and appends no move for that agent.
C10_HumanNeverDecided ==
    [][(pc = "dilemma" /\ pc' = "dilemma_done") =>
         /\ agents[prisoner1].strategy = USER =>
               /\ err' # "none"
               /\ agents'[prisoner1].turns = agents[prisoner1].turns
         /\ (~isuser /\ agents[prisoner2].strategy = USER) =>
               /\ err' # "none"
               /\ agents'[prisoner2].turns = agents[prisoner2].turns]_vars

\* C2 (the claim as stated): match returns the agent with the strictly
\* higher final score as winner, and on equal scores returns the first
\* argument as winner and marks the second argument eliminated.
C2_TieEliminatesSecond ==
    pc = "match_done" =>
        LET s1 == agents[prisoner1].final_score
            s2 == agents[prisoner2].final_score
        IN  /\ s1 > s2 => match_ret = <<prisoner1, prisoner2>>
            /\ s2 > s1 => match_ret = <<prisoner2, prisoner1>>
            /\ s1 = s2 => (match_ret = <<prisoner1, prisoner2>> /\ agents[prisoner2].elim)

\* C2 (amended): match returns the agent with the strictly higher final score
\* as winner and marks the other eliminated; on equal scores the FIRST
\* argument is the loser and is marked eliminated, and the second argument
\* is returned as winner.
C2_TieEliminatesFirst ==
    pc = "match_done" =>
        LET s1 == agents[prisoner1].final_score
            s2 == agents[prisoner2].final_score
        IN  /\ s1 > s2 => (match_ret = <<prisoner1, prisoner2>> /\ agents[prisoner2].elim)
            /\ s2 > s1 => (match_ret = <<prisoner2, prisoner1>> /\ agents[prisoner1].elim)
            /\ s1 = s2 => (match_ret = <<prisoner2, prisoner1>> /\ agents[prisoner1].elim)

\* C2 witness: a match of at least one turn has ended in a tie
C2_Witness ==
    /\ pc = "match_done"
    /\ Len(agents[prisoner1].turns) > 0
    /\ agents[prisoner1].final_score = agents[prisoner2].final_score
    /\ match_ret = <<prisoner2, prisoner1>>

\* C5: a turn of a match is played only from a state in which fewer than
\* round_max turns have been played and both scores are strictly above
\* elim_num, and it is one turn for both agents; so the turns played never
\* exceed round_max (none is played when round_max <= 0); and the loop is
\* left exactly when the round counter exceeds round_max or a score is at or
\* below elim_num.
C5_TurnGuard ==
    /\ [](pc \in {"match_loop", "match_done"} =>
            /\ Len(agents[prisoner1].turns) = Len(agents[prisoner2].turns)
            /\ round_num = Len(agents[prisoner1].turns) + 1
            /\ round_max >= 0 => Len(agents[prisoner1].turns) <= round_max
            /\ round_max < 0 => Len(agents[prisoner1].turns) = 0)
    /\ [][(pc = "match_loop" /\ agents'[prisoner1].turns # agents[prisoner1].turns) =>
            /\ Len(agents[prisoner1].turns) < round_max
            /\ agents[prisoner1].final_score > elim_num
            /\ agents[prisoner2].final_score > elim_num
            /\ Len(agents'[prisoner1].turns) = Len(agents[prisoner1].turns) + 1
            /\ Len(agents'[prisoner2].turns) = Len(agents[prisoner2].turns) + 1
            /\ pc' = "match_loop"]_vars
    /\ [][(pc = "match_loop" /\ pc' = "match_done") =>
            \/ round_num > round_max
            \/ agents[prisoner1].final_score <= elim_num
            \/ agents[prisoner2].final_score <= elim_num]_vars
    /\ [][(pc = "match_loop" /\ (\/ round_num > round_max
                                 \/ agents[prisoner1].final_score <= elim_num
                                 \/ agents[prisoner2].final_score <= elim_num)) =>
            (pc' = "match_done" /\ agents'[prisoner1].turns = agents[prisoner1].turns
                                /\ agents'[prisoner2].turns = agents[prisoner2].turns)]_vars

\* C5 witness: a match has ended after exactly round_max >= 2 turns with both
\* scores above the threshold
C5_Witness ==
    /\ pc = "match_done"
    /\ round_max >= 2
    /\ Len(agents[prisoner1].turns) = round_max
    /\ agents[prisoner1].final_score > elim_num
    /\ agents[prisoner2].final_score > elim_num

\* C6 (the claim as stated): for every threshold, negative, zero or positive,
\* an agent whose score is at or below elim_num when the loop stops is the
\* loser, and when the loop was stopped by the threshold the winner's score
\* is strictly above it; NICE against GREEDY with threshold -1 and
\* round_max >= 1 ends after exactly one turn, GREEDY winning 3 to -1, in
\* either argument order.
C6_AtThresholdLoses ==
    pc = "match_done" =>
        /\ \A a \in {prisoner1, prisoner2} :
              agents[a].final_score <= elim_num => match_ret[2] = a
        /\ (\E a \in {prisoner1, prisoner2} : agents[a].final_score <= elim_num)
              => agents[match_ret[1]].final_score > elim_num
        /\ ({agents[prisoner1].strategy, agents[prisoner2].strategy} = {NICE, GREEDY}
               /\ elim_num = -1 /\ round_max >= 1) =>
              /\ Len(agents[prisoner1].turns) = 1
              /\ Len(agents[prisoner2].turns) = 1
              /\ agents[match_ret[1]].strategy = GREEDY
              /\ agents[match_ret[1]].final_score = 3
              /\ agents[match_ret[2]].strategy = NICE
              /\ agents[match_ret[2]].final_score = -1

\* C6 (amended): for every NEGATIVE threshold, an agent whose score is at or
\* below elim_num when the loop stops is the loser, and when the loop was
\* stopped by the threshold the winner's score is strictly above it (with a
\* threshold >= 0 both agents are at or below it from the start, no turn is
\* played and the winner holds score 0); NICE against GREEDY with threshold
\* -1 and round_max >= 1 ends after exactly one turn, GREEDY winning 3 to
\* -1, in either argument order.
C6_AtNegativeThresholdLoses ==
    pc = "match_done" =>
        /\ elim_num < 0 =>
              /\ \A a \in {prisoner1, prisoner2} :
                    agents[a].final_score <= elim_num => match_ret[2] = a
              /\ (\E a \in {prisoner1, prisoner2} : agents[a].final_score <= elim_num)
                    => agents[match_ret[1]].final_score > elim_num
        /\ elim_num >= 0 =>
              /\ agents[prisoner1].turns = <<>> /\ agents[prisoner2].turns = <<>>
              /\ agents[match_ret[1]].final_score = 0
        /\ ({agents[prisoner1].strategy, agents[prisoner2].strategy} = {NICE, GREEDY}
               /\ elim_num = -1 /\ round_max >= 1) =>
              /\ Len(agents[prisoner1].turns) = 1
              /\ Len(agents[prisoner2].turns) = 1
              /\ agents[match_ret[1]].strategy = GREEDY
              /\ agents[match_ret[1]].final_score = 3
              /\ agents[match_ret[2]].strategy = NICE
              /\ agents[match_ret[2]].final_score = -1

\* C6 witness: GREEDY (first argument) against NICE, threshold -1 and
\* round_max 2: stopped by the threshold after one turn, GREEDY the winner
C6_Witness ==
    /\ pc = "match_done"
    /\ agents[prisoner1].strategy = GREEDY /\ agents[prisoner2].strategy = NICE
    /\ elim_num = -1 /\ round_max = 2
    /\ agents[prisoner2].final_score <= elim_num
    /\ round_num = 2
    /\ match_ret = <<prisoner1, prisoner2>>

\* C1: set_up_matches on N >= 2 agents returns (it does not raise) a list of
\* exactly N agents that is a permutation of the population, whose last
\* element is the one agent that never lost a match: every other element
\* lost exactly one.
C1_ResultIsPermutation ==
    Len(agents) >= 2 =>
        /\ pc # "raised"
        /\ pc = "returned" =>
              LET N == Len(agents) IN
              /\ Len(final_prisoners) = N
              /\ {final_prisoners[k] : k \in 1..N} = 1..N
              /\ \A j, k \in 1..N : j # k => final_prisoners[j] # final_prisoners[k]
              /\ lost[final_prisoners[N]] = <<>>
              /\ \A k \in 1..(N - 1) : Len(lost[final_prisoners[k]]) = 1
              /\ Cardinality({a \in 1..N : lost[a] = <<>>}) = 1

\* C1 witness: a tournament of three agents of three different strategies
\* has returned (one bye, two matches)
C1_Witness ==
    /\ pc = "returned"
    /\ Len(agents) = 3
    /\ Len(final_prisoners) = 3
    /\ Cardinality({agents[a].strategy : a \in 1..3}) = 3
    /\ bracket_round = 2

\* C3 (the claim as stated): when a tournament of N >= 2 agents has returned,
\* every agent of the output but the last has elim_round >= 1, equal to the
\* bracket round in which it lost its match; and elim_round is written at
\* most once per agent, only in the step in which elim becomes true.
C3_EliminationRoundRecorded ==
    /\ []((pc = "returned" /\ Len(agents) >= 2) =>
            \A k \in 1..(Len(final_prisoners) - 1) :
                /\ agents[final_prisoners[k]].elim_round >= 1
                /\ <<agents[final_prisoners[k]].elim_round>> = lost[final_prisoners[k]])
    /\ [][\A a \in DOMAIN agents :
            agents'[a].elim_round # agents[a].elim_round =>
                (agents[a].elim_round = 0 /\ ~agents[a].elim /\ agents'[a].elim)]_vars

\* C4: when a tournament of N >= 2 freshly constructed agents has returned,
\* every element of the output but the last has elim = TRUE and the last has
\* elim = FALSE and elim_round = 0; and no step ever clears an elim flag, so
\* the flag of the agent that ends as winner was TRUE in no state of the run.
C4_WinnerNeverEliminated ==
    /\ []((pc = "returned" /\ Len(agents) >= 2) =>
            LET N == Len(final_prisoners) IN
            /\ \A k \in 1..(N - 1) : agents[final_prisoners[k]].elim = TRUE
            /\ agents[final_prisoners[N]].elim = FALSE
            /\ agents[final_prisoners[N]].elim_round = 0)
    /\ [](\A a \in DOMAIN agents : agents[a].elim => lost[a] # <<>>)
    /\ [][\A a \in DOMAIN agents : agents[a].elim => agents'[a].elim]_vars

\* C4 witness: a tournament of three agents has returned, its winner not
\* eliminated and the two others eliminated
C4_Witness ==
    /\ pc = "returned"
    /\ Len(agents) = 3
    /\ Len(final_prisoners) = 3
    /\ ~agents[final_prisoners[3]].elim
    /\ agents[final_prisoners[1]].elim /\ agents[final_prisoners[2]].elim

\* C8 (the claim as stated): set_up_matches on a population of size 0 or 1 is
\* rejected with an error before any match is played: it never returns,
\* builds no result list and names no winner.  Any exception is counted as
\* the rejection here, whatever its kind.
C8_SmallPopulationRejected ==
    Len(agents) <= 1 =>
        /\ pc # "returned"
        /\ final_prisoners = <<>>
        /\ match_ret = <<>> /\ bracket_round = 0
        /\ pc = "raised" => err # "none"

\* C9 (the claim as stated): a match, and a tournament, called with
\* round_max <= 0 fails with an error: no winner/loser pair is produced, the
\* call does not return normally and no agent's elimination flag, score or
\* history is changed (checked on tournaments of at least two freshly
\* constructed agents, where unchanged means still as constructed).
C9_NonPositiveRoundsRejected ==
    (round_max <= 0 /\ Len(agents) >= 2) =>
        /\ match_ret = <<>>
        /\ \A a \in DOMAIN agents :
              /\ agents[a].elim = FALSE
              /\ agents[a].final_score = 0
              /\ agents[a].turns = <<>>
        /\ pc # "returned"

\* C12: two NICE agents, any threshold < 0 and any round_max R >= 1: the
\* match plays exactly R turns, every move of both agents is cooperate and
\* both finish with score 5*R.
C12_NiceVsNice ==
    (/\ pc = "match_done"
     /\ agents[prisoner1].strategy = NICE /\ agents[prisoner2].strategy = NICE
     /\ elim_num < 0 /\ round_max >= 1) =>
        \A a \in {prisoner1, prisoner2} :
            /\ Len(agents[a].turns) = round_max
            /\ \A k \in 1..Len(agents[a].turns) : agents[a].turns[k] = TRUE
            /\ agents[a].final_score = 5 * round_max

\* C12 witness: two NICE agents have finished a match of round_max = 2 with
\* threshold -1, 10 to 10
C12_Witness ==
    /\ pc = "match_done"
    /\ agents[prisoner1].strategy = NICE /\ agents[prisoner2].strategy = NICE
    /\ elim_num = -1 /\ round_max = 2
    /\ agents[prisoner1].final_score = 10 /\ agents[prisoner2].final_score = 10

\* C13: in every state of a match after its reset, the two histories have
\* the same length, the number of turns completed in this match
\* (round_num - 1), and each score is the sum of that agent's payoffs over
\* exactly those turns (5 when both cooperated, 3 when it alone defected, -1
\* when it alone cooperated, 0 when both defected), hence within [-t, 5t];
\* nothing carried into the match contributes.
C13_HistoryAndScore ==
    pc \in {"match_loop", "match_done"} =>
        LET h1 == agents[prisoner1].turns
            h2 == agents[prisoner2].turns
            t == round_num - 1
            both == Cardinality({k \in 1..t : h1[k] /\ h2[k]})
            only1 == Cardinality({k \in 1..t : h1[k] /\ ~h2[k]})
            only2 == Cardinality({k \in 1..t : ~h1[k] /\ h2[k]})
        IN  /\ Len(h1) = t /\ Len(h2) = t
            /\ agents[prisoner1].final_score = 5 * both + 3 * only2 - only1
            /\ agents[prisoner2].final_score = 5 * both + 3 * only1 - only2
            /\ \A a \in {prisoner1, prisoner2} :
                  agents[a].final_score >= -t /\ agents[a].final_score <= 5 * t

\* C13 witness: two turns of a match are done, each agent having defected
\* alone once (2 to 2)
C13_Witness ==
    /\ pc = "match_loop"
    /\ agents[prisoner1].turns = <<TRUE, FALSE>>
    /\ agents[prisoner2].turns = <<FALSE, TRUE>>
    /\ agents[prisoner1].final_score = 2 /\ agents[prisoner2].final_score = 2

\* C15: a call of match sets elim on the loser it returns and on no one
\* else: the winner's elim stays as it was on entry, no step but the final
\* one touches an elim flag, and elim_round of both agents is never changed.
C15_OnlyLoserFlagged ==
    [][/\ \A a \in {prisoner1, prisoner2} :
            agents'[a].elim_round = agents[a].elim_round
       /\ pc' # "match_done" =>
            \A a \in {prisoner1, prisoner2} : agents'[a].elim = agents[a].elim
       /\ (pc = "match_loop" /\ pc' = "match_done") =>
            /\ match_ret' \in {<<prisoner1, prisoner2>>, <<prisoner2, prisoner1>>}
            /\ agents'[match_ret'[2]].elim = TRUE
            /\ agents'[match_ret'[1]].elim = agents[match_ret'[1]].elim]_vars

\* C15 witness: match has returned a winner that entered the call with its
\* elim flag set (as the loser of an earlier match) and still has it set
C15_Witness ==
    /\ pc = "match_done"
    /\ agents[match_ret[1]].elim
    /\ agents[match_ret[2]].elim
    /\ agents[match_ret[1]].elim_round = 0 /\ agents[match_ret[2]].elim_round = 0

\* C19: with a threshold T <= -1 no score is ever strictly below T in a
\* match, and when the loop stops on the threshold exactly one agent is at
\* score = T and the other is strictly above T; with T >= 0 the match plays
\* no turn and ends 0 to 0.
C19_ScoreFloor ==
    pc \in {"match_loop", "match_done"} =>
        LET s1 == agents[prisoner1].final_score
            s2 == agents[prisoner2].final_score
        IN  /\ elim_num <= -1 =>
                  /\ s1 >= elim_num /\ s2 >= elim_num
                  /\ (pc = "match_done" /\ (s1 <= elim_num \/ s2 <= elim_num)) =>
                        \/ (s1 = elim_num /\ s2 > elim_num)
                        \/ (s2 = elim_num /\ s1 > elim_num)
            /\ elim_num >= 0 =>
                  /\ agents[prisoner1].turns = <<>> /\ agents[prisoner2].turns = <<>>
                  /\ s1 = 0 /\ s2 = 0

\* C19 witness: a match with threshold -2 has been stopped by the threshold
\* after two turns, the loser at exactly -2
C19_Witness ==
    /\ pc = "match_done"
    /\ elim_num = -2
    /\ Len(agents[prisoner1].turns) = 2
    /\ agents[match_ret[2]].final_score = -2
    /\ agents[match_ret[1]].final_score > -2

\* C14: the move dilemma appends for a NICEUNTIL agent is the reference
\* rule, for every pair of histories: cooperate if the opponent's history is
\* empty; else, if the agent's own last move exists and was cooperate, the
\* opponent's last move; else (own last move defect or absent) defect if the
\* opponent's history has exactly one entry, and otherwise cooperate iff the
\* opponent's two most recent moves were both cooperate.  Hence, with
\* histories of equal length as inside a match, a NICEUNTIL agent whose last
\* move was defect defects again unless the opponent cooperated on the two
\* most recent turns.
C14_NiceUntilNotRule ==
    [][(pc = "dilemma" /\ pc' = "dilemma_done") =>
         LET Ref(own, opp) ==
                 IF opp = <<>> THEN TRUE
                 ELSE IF own # <<>> /\ own[Len(own)] = TRUE THEN opp[Len(opp)]
                 ELSE IF Len(opp) = 1 THEN FALSE
                 ELSE opp[Len(opp)] = TRUE /\ opp[Len(opp) - 1] = TRUE
             Holds(p, q) ==
                 LET own == agents[p].turns
                     opp == agents[q].turns
                     move == agents'[p].turns[Len(own) + 1]
                 IN  /\ Len(agents'[p].turns) = Len(own) + 1
                     /\ move = Ref(own, opp)
                     /\ (Len(own) = Len(opp) /\ own # <<>> /\ own[Len(own)] = FALSE
                            /\ move = TRUE) =>
                           (/\ Len(opp) >= 2
                            /\ opp[Len(opp)] = TRUE /\ opp[Len(opp) - 1] = TRUE)
         IN  /\ agents[prisoner1].strategy = NICEUNTIL => Holds(prisoner1, prisoner2)
             /\ (~isuser /\ agents[prisoner2].strategy = NICEUNTIL)
                   => Holds(prisoner2, prisoner1)]_vars

\* C14 witness: a NICEUNTIL agent whose last move was defect has cooperated
\* again after the opponent (NICE) cooperated on the two most recent turns
C14_Witness ==
    /\ pc = "dilemma_done"
    /\ agents[prisoner1].strategy = NICEUNTIL /\ agents[prisoner2].strategy = NICE
    /\ agents[prisoner1].turns = <<TRUE, FALSE, TRUE>>
    /\ agents[prisoner2].turns = <<TRUE, TRUE, TRUE>>

\* C16: in a bracket round with an odd number n of survivors the agent at
\* the middle index n \div 2 of the shuffled list is in the next survivor
\* set from the start of the round, is in no match of the round, is among
\* the survivors when the round ends, and no step of the round changes its
\* score, history, elim or elim_round.
C16_ByeUntouched ==
    /\ []((pc \in {"for", "match_reset", "match_loop", "match_done"}
             /\ Len(prisoners) % 2 = 1) =>
            LET bye == prisoners[(Len(prisoners) \div 2) + 1]
            IN  /\ current_winners # <<>> /\ current_winners[1] = bye
                /\ pc # "for" => (prisoner1 # bye /\ prisoner2 # bye))
    /\ [][(pc \in {"for", "match_reset", "match_loop", "match_done"}
             /\ Len(prisoners) % 2 = 1) =>
            LET bye == prisoners[(Len(prisoners) \div 2) + 1]
            IN  /\ agents'[bye] = agents[bye]
                /\ lost'[bye] = lost[bye]
                /\ pc' = "while" =>
                      \E k \in 1..Len(prisoners') : prisoners'[k] = bye]_vars

\* C16 witness: the first round of a tournament of three agents with
\* round_max = 1 is over; one survivor is still as constructed (the bye), the
\* other has played its turn
C16_Witness ==
    /\ pc = "while" /\ bracket_round = 1
    /\ Len(agents) = 3 /\ Len(prisoners) = 2 /\ round_max = 1
    /\ \E a, b \in {prisoners[1], prisoners[2]} :
          /\ agents[a] = Prisoner(agents[a].strategy)
          /\ Len(agents[b].turns) = 1

C18_FinalizedFrozen ==
    /\ [](pc \in {"match_reset", "match_loop", "match_done"} =>
            \A k \in 1..Len(final_prisoners) :
                final_prisoners[k] # prisoner1 /\ final_prisoners[k] # prisoner2)
    /\ [][\A k \in 1..Len(final_prisoners) :
            agents'[final_prisoners[k]] = agents[final_prisoners[k]]]_vars
    /\ [][(pc = "match_done" /\ pc' = "for") =>
            LET L == match_ret[2]
                W == match_ret[1]
            IN  /\ final_prisoners' = Append(final_prisoners, L)
                /\ {L, W} = {prisoner1, prisoner2}
                /\ lost[L] = <<bracket_round>>
                /\ Len(agents[L].turns) = round_num - 1
                /\ agents[L].final_score <= agents[W].final_score
                /\ agents'[L] = agents[L]]_vars

\* C18 witness: in the second round of a tournament of three agents a turn
\* has been played while the loser of the first round sits in
\* final_prisoners with the one-turn history of the match it lost
C18_Witness ==
    /\ pc = "match_loop" /\ bracket_round = 2 /\ round_num = 2
    /\ Len(agents) = 3
    /\ Len(final_prisoners) = 1
    /\ Len(agents[final_prisoners[1]].turns) = 1
    /\ agents[final_prisoners[1]].elim

\* C20: set_up_matches consumes the caller's list: when it returns for
\* N >= 2 agents the list passed as prisoners holds exactly one element, the
\* agent that is the last element of the returned list; for one agent the
\* list passed is returned unchanged.
C20_CallerListConsumed ==
    pc = "returned" =>
        /\ Len(agents) >= 2 =>
              /\ Len(prisoners) = 1
              /\ prisoners[1] = final_prisoners[Len(final_prisoners)]
              /\ lost[prisoners[1]] = <<>>
        /\ Len(agents) = 1 => prisoners = <<1>>

\* C20 witness: a tournament of three agents has returned and the caller's
\* list holds only the winner
C20_Witness ==
    /\ pc = "returned"
    /\ Len(agents) = 3
    /\ prisoners = <<final_prisoners[3]>>

\* C11: match is repeatable: when match has run twice in a row on the same
\* two agents with the same elim_num and round_max and the same random
\* draws, both agents have the same move history and the same score after
\* the second run as after the first, whatever scores, histories and elim
\* flags they carried into the first call.
C11_MatchRepeatable ==
    (pc = "match_done" /\ first_run # None) =>
        \A a \in {prisoner1, prisoner2} :
            /\ agents[a].turns = first_run[1][a].turns
            /\ agents[a].final_score = first_run[1][a].final_score

\* C11 witness: the second run of a match of two turns has returned; the
\* first agent plays RANDOM and drew two different values, and the winner
\* still carries the elim flag it brought into the first call
C11_Witness ==
    /\ pc = "match_done" /\ first_run # None
    /\ agents[prisoner1].strategy = RANDOM
    /\ Len(draws) = 2 /\ draws[1][1] # draws[2][1]
    /\ Len(agents[prisoner1].turns) = 2
    /\ agents[match_ret[1]].elim

====
